---- MODULE Spec2Model ----
(***************************************************************************)
(* Model of the provider layer of text-service:                            *)
(*   app/services/model_providers/aliyun.py   (AliyunProvider)             *)
(*   app/services/model_providers/deepseek.py (DeepSeekProvider)           *)
(*                                                                         *)
(* Python values are tagged records [kind, n, s, l]; a float is kept in    *)
(* tenths in n (0.7 is n = 7), with s naming the non-finite floats.  A     *)
(* dict is a function whose domain is its key set.                         *)
(***************************************************************************)
EXTENDS Integers, Sequences, FiniteSets, TLC

VARIABLES
    provider,     \* which provider instance the call is made on
    model,        \* the model argument
    parameters,   \* the caller's parameters dict (the object the caller holds)
    params0,      \* the caller's parameters dict as it was when the call began
    supported,    \* the supported_models list read by the call
    validated,    \* the dict validate_parameters returned
    pc,           \* position of the call
    error,        \* the exception the call raised
    apiKey,       \* the API key the call read from the settings
    requests,     \* number of upstream requests the call has issued
    response,     \* the upstream response the call received
    result        \* the dict the call returned

vars == <<provider, model, parameters, params0, supported, validated, pc,
          error, apiKey, requests, response, result>>

(***************************************************************************)
(* Bounds of the explored inputs.                                          *)
(***************************************************************************)
MaxParams == 2      \* optional keys in a parameters dict, besides prompt/messages
MaxMsgs == 1        \* length of a caller-supplied messages list
MaxChoices == 2     \* length of an upstream choices list

(***************************************************************************)
(* Python values.                                                          *)
(***************************************************************************)
PyInt(i) == [kind |-> "int", n |-> i, s |-> "", l |-> <<>>]
PyFloat(t) == [kind |-> "float", n |-> t, s |-> "", l |-> <<>>]
PyNaN == [kind |-> "float", n |-> 0, s |-> "nan", l |-> <<>>]
PyInf == [kind |-> "float", n |-> 0, s |-> "inf", l |-> <<>>]
PyNegInf == [kind |-> "float", n |-> 0, s |-> "-inf", l |-> <<>>]
PyStr(x) == [kind |-> "str", n |-> 0, s |-> x, l |-> <<>>]
PyBool(b) == [kind |-> "bool", n |-> IF b THEN 1 ELSE 0, s |-> "", l |-> <<>>]
PyNone == [kind |-> "none", n |-> 0, s |-> "", l |-> <<>>]
PyList(q) == [kind |-> "list", n |-> 0, s |-> "", l |-> q]

EmptyDict == [k \in {} |-> PyNone]
Put(d, k, v) == [x \in DOMAIN d \cup {k} |-> IF x = k THEN v ELSE d[x]]
Del(d, k) == [x \in DOMAIN d \ {k} |-> d[x]]
Get(d, k, default) == IF k \in DOMAIN d THEN d[k] ELSE default

NoError == [type |-> "", msg |-> ""]
Raise(t, m) == [type |-> t, msg |-> m]

Ok(v) == [ok |-> TRUE, val |-> v, err |-> NoError]
Fail(e) == [ok |-> FALSE, val |-> PyNone, err |-> e]

\* Text of numerals Python's int() and float() accept.
IntLiterals == ("512" :> 512) @@ ("40" :> 40)
FloatLiterals == "1.5" :> 15

TypeName(v) ==
    CASE v.kind = "none" -> "NoneType"
      [] v.kind = "list" -> "list"
      [] OTHER -> v.kind

\* Truncation toward zero of a float kept in tenths.
Trunc(t) == IF t >= 0 THEN t \div 10 ELSE -((-t) \div 10)

\* int(v)
ToInt(v) ==
    CASE v.kind = "int" -> Ok(PyInt(v.n))
      [] v.kind = "bool" -> Ok(PyInt(v.n))
      [] v.kind = "float" ->
            IF v.s = "nan"
            THEN Fail(Raise("ValueError", "cannot convert float NaN to integer"))
            ELSE IF v.s # ""
            THEN Fail(Raise("OverflowError", "cannot convert float infinity to integer"))
            ELSE Ok(PyInt(Trunc(v.n)))
      [] v.kind = "str" ->
            IF v.s \in DOMAIN IntLiterals
            THEN Ok(PyInt(IntLiterals[v.s]))
            ELSE Fail(Raise("ValueError",
                    "invalid literal for int() with base 10: '" \o v.s \o "'"))
      [] OTHER ->
            Fail(Raise("TypeError",
                "int() argument must be a string, a bytes-like object or a real number, not '"
                \o TypeName(v) \o "'"))

\* float(v)
ToFloat(v) ==
    CASE v.kind = "int" -> Ok(PyFloat(v.n * 10))
      [] v.kind = "bool" -> Ok(PyFloat(v.n * 10))
      [] v.kind = "float" -> Ok(v)
      [] v.kind = "str" ->
            IF v.s \in DOMAIN FloatLiterals THEN Ok(PyFloat(FloatLiterals[v.s]))
            ELSE IF v.s \in DOMAIN IntLiterals THEN Ok(PyFloat(IntLiterals[v.s] * 10))
            ELSE IF v.s \in {"nan", "inf", "-inf"}
            THEN Ok([kind |-> "float", n |-> 0, s |-> v.s, l |-> <<>>])
            ELSE Fail(Raise("ValueError",
                    "could not convert string to float: '" \o v.s \o "'"))
      [] OTHER ->
            Fail(Raise("TypeError",
                "float() argument must be a string or a real number, not '"
                \o TypeName(v) \o "'"))

\* bool(v)
ToBool(v) ==
    CASE v.kind \in {"int", "bool"} -> PyBool(v.n # 0)
      [] v.kind = "float" -> PyBool(v.s # "" \/ v.n # 0)
      [] v.kind = "str" -> PyBool(v.s # "")
      [] v.kind = "list" -> PyBool(v.l # <<>>)
      [] OTHER -> PyBool(FALSE)

\* a < b on ints and floats; every comparison with NaN is false.
NumLt(a, b) ==
    LET na == IF a.kind = "float" THEN a.n ELSE a.n * 10
        nb == IF b.kind = "float" THEN b.n ELSE b.n * 10
    IN  IF a.s = "nan" \/ b.s = "nan" THEN FALSE
        ELSE IF a.s = "inf" THEN FALSE
        ELSE IF b.s = "-inf" THEN FALSE
        ELSE IF a.s = "-inf" THEN TRUE
        ELSE IF b.s = "inf" THEN TRUE
        ELSE na < nb

\* min(a, b) and max(a, b): the first argument is kept unless the second beats it.
PyMin(a, b) == IF NumLt(b, a) THEN b ELSE a
PyMax(a, b) == IF NumLt(a, b) THEN b ELSE a

(***************************************************************************)
(* supported_models: the configured list, else the hard-coded fallback.    *)
(***************************************************************************)
AliyunFallbackModels ==
    <<"qwen-turbo", "qwen-plus", "qwen-max", "qwen3-235b-a22b", "qwen3-30b-a3b",
      "qwen-plus-latest", "qwen-turbo-latest", "qwen-vl-max", "qwen-vl-plus">>
DeepSeekFallbackModels == <<"deepseek-chat", "deepseek-reasoner">>

\* settings.PROVIDER_SUPPORTED_MODELS: absent entries, or a deployment's own lists.
NoConfig == [k \in {} |-> <<>>]
SomeConfig == ("aliyun" :> <<"qwen-turbo", "deepseek-chat">>)
              @@ ("deepseek" :> <<"deepseek-reasoner", "qwen-max">>)
Configs == {NoConfig, SomeConfig}

AliyunSupportedModels(cfg) == Get(cfg, "aliyun", AliyunFallbackModels)
DeepSeekSupportedModels(cfg) == Get(cfg, "deepseek", DeepSeekFallbackModels)

Range(q) == {q[i] : i \in 1..Len(q)}

RECURSIVE Join(_)
\* ", ".join(q)
Join(q) ==
    IF Len(q) = 0 THEN ""
    ELSE IF Len(q) = 1 THEN q[1]
    ELSE q[1] \o ", " \o Join(Tail(q))

UnsupportedModelError(m, sup) ==
    Raise("ValueError",
          "Model '" \o m \o "' not supported. Supported models: " \o Join(sup))
MissingInputError == Raise("ValueError", "Parameter 'prompt' or 'messages' is required")

(***************************************************************************)
(* validate_parameters.  A frame holds the two dict objects of the call:   *)
(* heap[1] is the caller's parameters, heap[ref] is `validated`.           *)
(***************************************************************************)
Out(f) == f.heap[f.ref]
Caller(f) == f.heap[1]
Write(f, k, v) == [f EXCEPT !.heap[f.ref] = Put(@, k, v)]
Remove(f, k) == [f EXCEPT !.heap[f.ref] = Del(@, k)]
Throw(f, e) == [f EXCEPT !.err = e]
Raised(f) == f.err # NoError

Untouched(p, e) == [heap |-> <<p, p>>, ref |-> 1, err |-> e]

\* validated = {}: the custom parameters are lost
EmptyParameters(p) == [heap |-> <<p, EmptyDict>>, ref |-> 2, err |-> NoError]
\* validated = parameters: the caller's dict is written to
AliasParameters(p) == [heap |-> <<p, p>>, ref |-> 1, err |-> NoError]
\* validated = parameters.copy()
CopyParameters(p) == [heap |-> <<p, p>>, ref |-> 2, err |-> NoError]

\* the model argument is not written
KeepModel(f, m) == f
\* validated["model"] = model
InjectModel(f, m) == Write(f, "model", PyStr(m))

\* the required-parameter check is skipped
RequiredNotChecked(p) == FALSE
\* "prompt" not in parameters and "messages" not in parameters
RequiredMissing(p) == "prompt" \notin DOMAIN p /\ "messages" \notin DOMAIN p

UserMessage(v) == PyList(<<[role |-> "user", content |-> v.s]>>)

\* prompt wins over messages
AliyunPromptFirst(f) ==
    IF "prompt" \in DOMAIN Caller(f)
    THEN Write(f, "messages", UserMessage(Caller(f)["prompt"]))
    ELSE IF "messages" \in DOMAIN Caller(f)
    THEN Write(f, "messages", Caller(f)["messages"])
    ELSE f
AliyunMessages(f) ==
    IF "messages" \in DOMAIN Caller(f)
    THEN Write(f, "messages", Caller(f)["messages"])
    ELSE IF "prompt" \in DOMAIN Caller(f)
    THEN Write(f, "messages", UserMessage(Caller(f)["prompt"]))
    ELSE f

AliyunMaxTokensLimit == 6000
AliyunMaxTokensDefault == 2048
AliyunTopKMax == 100

AliyunMaxTokens(f) ==
    IF Raised(f) THEN f
    ELSE IF "max_tokens" \in DOMAIN Out(f)
    THEN LET r == ToInt(Out(f)["max_tokens"])
         IN  IF r.ok
             THEN Write(f, "max_tokens", PyMin(r.val, PyInt(AliyunMaxTokensLimit)))
             ELSE Throw(f, r.err)
    ELSE Write(f, "max_tokens", PyInt(AliyunMaxTokensDefault))

AliyunTemperature(f) ==
    IF Raised(f) THEN f
    ELSE IF "temperature" \in DOMAIN Out(f)
    THEN LET r == ToFloat(Out(f)["temperature"])
         IN  IF r.ok
             THEN Write(f, "temperature", PyMax(PyFloat(0), PyMin(r.val, PyFloat(10))))
             ELSE Throw(f, r.err)
    ELSE Write(f, "temperature", PyFloat(7))

AliyunTopP(f) ==
    IF Raised(f) THEN f
    ELSE IF "top_p" \in DOMAIN Out(f)
    THEN LET r == ToFloat(Out(f)["top_p"])
         IN  IF r.ok
             THEN Write(f, "top_p", PyMax(PyFloat(0), PyMin(r.val, PyFloat(10))))
             ELSE Throw(f, r.err)
    ELSE Write(f, "top_p", PyFloat(9))

AliyunTopK(f) ==
    IF Raised(f) THEN f
    ELSE IF "top_k" \in DOMAIN Out(f)
    THEN LET r == ToInt(Out(f)["top_k"])
         IN  IF r.ok
             THEN Write(f, "top_k", PyMax(PyInt(1), PyMin(r.val, PyInt(AliyunTopKMax))))
             ELSE Throw(f, r.err)
    ELSE f

AliyunStream(f) ==
    IF Raised(f) THEN f
    ELSE IF "stream" \in DOMAIN Out(f)
    THEN Write(f, "stream", ToBool(Out(f)["stream"]))
    ELSE Write(f, "stream", PyBool(FALSE))

AliyunSeed(f) ==
    IF Raised(f) THEN f
    ELSE IF "seed" \in DOMAIN Out(f)
    THEN LET r == ToInt(Out(f)["seed"])
         IN  IF r.ok THEN Write(f, "seed", r.val) ELSE Throw(f, r.err)
    ELSE f

AliyunEnableThinking(f) ==
    IF Raised(f) THEN f
    ELSE IF "enable_thinking" \notin DOMAIN Out(f)
    THEN Write(f, "enable_thinking", PyBool(FALSE))
    ELSE f

\* AliyunProvider.validate_parameters(model, parameters), supported_models = sup
AliyunValidate(m, p, sup) ==
    IF m \notin Range(sup) THEN Untouched(p, UnsupportedModelError(m, sup))
    ELSE IF RequiredMissing(p) THEN Untouched(p, MissingInputError)
    ELSE AliyunEnableThinking(AliyunSeed(AliyunStream(AliyunTopK(AliyunTopP(
            AliyunTemperature(AliyunMaxTokens(AliyunMessages(
                InjectModel(CopyParameters(p), m)))))))))

DeepSeekMessages(f) ==
    IF "messages" \in DOMAIN Caller(f)
    THEN Write(f, "messages", Caller(f)["messages"])
    ELSE IF "prompt" \in DOMAIN Caller(f)
    THEN LET g == Write(f, "messages", UserMessage(Caller(f)["prompt"]))
         IN  IF "prompt" \in DOMAIN Out(g) THEN Remove(g, "prompt") ELSE g
    ELSE f

DeepSeekMaxTokensLimit == 32768
DeepSeekMaxTokensDefault == 4096

DeepSeekMaxTokens(f) ==
    IF Raised(f) THEN f
    ELSE IF "max_tokens" \in DOMAIN Out(f)
    THEN LET r == ToInt(Out(f)["max_tokens"])
         IN  IF r.ok
             THEN Write(f, "max_tokens", PyMin(r.val, PyInt(DeepSeekMaxTokensLimit)))
             ELSE Throw(f, r.err)
    ELSE Write(f, "max_tokens", PyInt(DeepSeekMaxTokensDefault))

DeepSeekTemperature(f, m) ==
    IF Raised(f) THEN f
    ELSE IF "temperature" \in DOMAIN Out(f) /\ m # "deepseek-reasoner"
    THEN LET r == ToFloat(Out(f)["temperature"])
         IN  IF r.ok
             THEN Write(f, "temperature", PyMax(PyFloat(0), PyMin(r.val, PyFloat(20))))
             ELSE Throw(f, r.err)
    ELSE IF m # "deepseek-reasoner"
    THEN Write(f, "temperature", PyFloat(7))
    ELSE f

DeepSeekTopP(f, m) ==
    IF Raised(f) THEN f
    ELSE IF "top_p" \in DOMAIN Out(f) /\ m # "deepseek-reasoner"
    THEN LET r == ToFloat(Out(f)["top_p"])
         IN  IF r.ok
             THEN Write(f, "top_p", PyMax(PyFloat(0), PyMin(r.val, PyFloat(10))))
             ELSE Throw(f, r.err)
    ELSE IF m # "deepseek-reasoner"
    THEN Write(f, "top_p", PyFloat(9))
    ELSE f

DeepSeekStream(f) ==
    IF Raised(f) THEN f
    ELSE IF "stream" \in DOMAIN Out(f)
    THEN Write(f, "stream", ToBool(Out(f)["stream"]))
    ELSE Write(f, "stream", PyBool(FALSE))

\* DeepSeekProvider.validate_parameters(model, parameters), supported_models = sup
DeepSeekValidate(m, p, sup) ==
    IF m \notin Range(sup) THEN Untouched(p, UnsupportedModelError(m, sup))
    ELSE IF RequiredMissing(p) THEN Untouched(p, MissingInputError)
    ELSE DeepSeekStream(DeepSeekTopP(DeepSeekTemperature(DeepSeekMaxTokens(
            DeepSeekMessages(InjectModel(CopyParameters(p), m))), m), m))

(***************************************************************************)
(* The explored inputs.                                                    *)
(***************************************************************************)
Providers == {"aliyun", "deepseek"}
ModelArgs == {"qwen-turbo", "deepseek-chat", "deepseek-reasoner"}

Msg(r, c) == [role |-> r, content |-> c]
Conversation == <<Msg("user", "hello"), Msg("assistant", "hi"), Msg("user", "and then?")>>
MessageLists == {SubSeq(Conversation, 1, k) : k \in 0..MaxMsgs}

CoreKeys == {"model", "messages", "prompt", "max_tokens", "temperature", "top_p",
             "top_k", "stream", "seed", "enable_thinking"}
CustomKeys == {"user_id", "repetition_penalty"}
OptionalKeys == (CoreKeys \ {"prompt", "messages"}) \cup CustomKeys

\* The values a caller is taken to supply under each key.
Candidates(k) ==
    CASE k = "prompt" -> {PyStr("hi")}
      [] k = "messages" -> {PyList(q) : q \in MessageLists}
      [] k = "model" -> {PyStr("gpt-4")}
      [] k = "max_tokens" -> {PyInt(40000), PyFloat(70005), PyStr("512"), PyStr("abc"),
                              PyNone}
      [] k = "temperature" -> {PyFloat(5), PyFloat(50), PyFloat(-10), PyInt(3),
                               PyStr("1.5"), PyNaN}
      [] k = "top_p" -> {PyFloat(30), PyFloat(-2), PyInf, PyStr("high")}
      [] k = "top_k" -> {PyInt(50), PyInt(0), PyInt(500), PyStr("40")}
      [] k = "stream" -> {PyBool(TRUE), PyStr("false"), PyInt(0)}
      [] k = "seed" -> {PyInt(42), PyFloat(429), PyNegInf}
      [] k = "enable_thinking" -> {PyBool(TRUE)}
      [] k = "user_id" -> {PyStr("u1"), PyInt(7)}
      [] OTHER -> {PyFloat(11)}

RECURSIVE DictsOver(_)
\* Every dict over the key set K with candidate values.
DictsOver(K) ==
    IF K = {} THEN {EmptyDict}
    ELSE LET k == CHOOSE x \in K : TRUE
         IN  {Put(d, k, v) : d \in DictsOver(K \ {k}), v \in Candidates(k)}

\* Every parameters dict with at most n optional keys.
ParameterDicts(n) ==
    UNION {DictsOver(B \cup K) :
             B \in SUBSET {"prompt", "messages"},
             K \in {X \in SUBSET OptionalKeys : Cardinality(X) <= n}}

\* The parameters dicts a call_model run is started with.
CallDicts ==
    {EmptyDict,
     "prompt" :> PyStr("hi"),
     "messages" :> PyList(<<Msg("user", "hello")>>),
     ("prompt" :> PyStr("hi")) @@ ("messages" :> PyList(<<Msg("user", "hello")>>)),
     ("prompt" :> PyStr("hi")) @@ ("max_tokens" :> PyStr("abc")),
     ("prompt" :> PyStr("hi")) @@ ("stream" :> PyBool(TRUE)),
     ("prompt" :> PyStr("hi")) @@ ("temperature" :> PyFloat(50)),
     ("prompt" :> PyStr("hi")) @@ ("user_id" :> PyStr("u1"))}

(***************************************************************************)
(* Upstream responses.  A JSON object or a client object is a function     *)
(* whose domain is the set of its keys or attributes.                      *)
(***************************************************************************)
EmptyObj == [k \in {} |-> 0]
Opt(k, S) == {EmptyObj} \cup {k :> v : v \in S}

AliyunChoiceShapes ==
    {"finish_reason" :> "length",
     "message" :> EmptyObj,
     "message" :> ("content" :> "answer"),
     ("message" :> (("content" :> "let me check") @@ ("tool_calls" :> <<"call_1">>)))
        @@ ("finish_reason" :> "tool_calls")}
AliyunChoiceLists == UNION {[1..k -> AliyunChoiceShapes] : k \in 0..MaxChoices}
AliyunOutputs ==
    {t @@ c @@ r : t \in Opt("text", {"hi there"}), c \in Opt("choices", AliyunChoiceLists),
                   r \in Opt("finish_reason", {"length"})}
AliyunUsages ==
    {EmptyObj,
     ("input_tokens" :> 2) @@ ("output_tokens" :> 3),
     ("input_tokens" :> 2) @@ ("output_tokens" :> 3) @@ ("total_tokens" :> 5)}
AliyunResponses ==
    {i @@ o @@ u : i \in Opt("request_id", {"req-1"}), o \in Opt("output", AliyunOutputs),
                   u \in Opt("usage", AliyunUsages)}

\* str(uuid.uuid4()) and datetime.now().strftime(...)
Uuids == {"uuid-1"}
Timestamps == {"2025-01-01 00:00:00"}

\* One Choice of the unified result, from the i-th upstream choice (i counted from 0).
AliyunChoice(i, choice) ==
    LET message == Get(choice, "message", EmptyObj)
        base == [role |-> "assistant", content |-> Get(message, "content", "")]
    IN  [index |-> i,
         message |-> IF "tool_calls" \in DOMAIN message
                     THEN base @@ ("tool_calls" :> message["tool_calls"])
                     ELSE base,
         finish_reason |-> Get(choice, "finish_reason", "stop")]

\* every Choice carries index 0
AliyunChoicesUnindexed(output) ==
    IF "text" \in DOMAIN output
    THEN <<[index |-> 0,
            message |-> [role |-> "assistant", content |-> output["text"]],
            finish_reason |-> Get(output, "finish_reason", "stop")]>>
    ELSE IF "choices" \in DOMAIN output
    THEN [i \in 1..Len(output["choices"]) |-> AliyunChoice(0, output["choices"][i])]
    ELSE <<>>
\* formatted_response["choices"] as _format_response fills it
AliyunChoices(output) ==
    IF "text" \in DOMAIN output
    THEN <<[index |-> 0,
            message |-> [role |-> "assistant", content |-> output["text"]],
            finish_reason |-> Get(output, "finish_reason", "stop")]>>
    ELSE IF "choices" \in DOMAIN output
    THEN [i \in 1..Len(output["choices"]) |-> AliyunChoice(i - 1, output["choices"][i])]
    ELSE <<>>

\* formatted_response["usage"] as _format_response fills it
AliyunUsage(api_response) ==
    LET usage == Get(api_response, "usage", EmptyObj)
    IN  IF DOMAIN usage # {}
        THEN [prompt_tokens |-> Get(usage, "input_tokens", 0),
              completion_tokens |-> Get(usage, "output_tokens", 0),
              total_tokens |-> Get(usage, "total_tokens", 0)]
        ELSE EmptyObj

\* AliyunProvider._format_response(api_response, original_params)
AliyunFormatResponse(api_response, original_params, uuid, now) ==
    [id |-> Get(api_response, "request_id", uuid),
     model |-> Get(original_params, "model", PyStr("")).s,
     created |-> now,
     choices |-> AliyunChoices(Get(api_response, "output", EmptyObj)),
     usage |-> AliyunUsage(api_response)]

\* Attributes of the message of a chat completion choice.
DeepSeekMessageShapes ==
    {[role |-> "assistant", content |-> "answer",
      function_call |-> [none |-> TRUE, name |-> "", arguments |-> ""]],
     [role |-> "assistant", content |-> "answer", reasoning_content |-> "thinking",
      function_call |-> [none |-> TRUE, name |-> "", arguments |-> ""]],
     [role |-> "assistant", content |-> "",
      function_call |-> [none |-> FALSE, name |-> "lookup", arguments |-> "{}"]]}
DeepSeekChoiceLists ==
    UNION {{[i \in 1..k |-> [index |-> i - 1, message |-> ms[i], finish_reason |-> "stop"]] :
              ms \in [1..k -> DeepSeekMessageShapes]} : k \in 0..MaxChoices}
DeepSeekUsages ==
    {[none |-> TRUE, prompt_tokens |-> 0, completion_tokens |-> 0, total_tokens |-> 0],
     [none |-> FALSE, prompt_tokens |-> 2, completion_tokens |-> 3, total_tokens |-> 5]}
DeepSeekResponses ==
    {[id |-> "chatcmpl-1", object |-> "chat.completion", model |-> "deepseek-chat",
      choices |-> cs] @@ u :
        cs \in DeepSeekChoiceLists, u \in Opt("usage", DeepSeekUsages)}

\* choice_data of one upstream choice
DeepSeekChoice(m, choice) ==
    LET msg == choice.message
        base == [role |-> msg.role, content |-> msg.content]
        reasoning == IF m = "deepseek-reasoner" /\ "reasoning_content" \in DOMAIN msg
                     THEN "reasoning_content" :> msg.reasoning_content
                     ELSE EmptyObj
        call == IF "function_call" \in DOMAIN msg /\ ~msg.function_call.none
                THEN "function_call" :> [name |-> msg.function_call.name,
                                         arguments |-> msg.function_call.arguments]
                ELSE EmptyObj
    IN  [index |-> choice.index,
         message |-> base @@ reasoning @@ call,
         finish_reason |-> choice.finish_reason]

\* the usage entry of the result: set only when the response has a usage
DeepSeekUsage(resp) ==
    IF "usage" \in DOMAIN resp /\ ~resp.usage.none
    THEN "usage" :> [prompt_tokens |-> resp.usage.prompt_tokens,
                     completion_tokens |-> resp.usage.completion_tokens,
                     total_tokens |-> resp.usage.total_tokens]
    ELSE EmptyObj

\* the result dict call_model builds from the chat completion
DeepSeekResult(m, resp, now) ==
    [id |-> resp.id,
     object |-> resp.object,
     created |-> now,
     model |-> resp.model,
     choices |-> [i \in 1..Len(resp.choices) |-> DeepSeekChoice(m, resp.choices[i])]]
    @@ DeepSeekUsage(resp)

(***************************************************************************)
(* The calls.                                                              *)
(***************************************************************************)
NoResult == EmptyObj
NoResponse == EmptyObj
ApiKeys == {"", "sk-test"}
HttpErrors == {"401, {'message': 'Invalid API-key provided.'}", "500, {'message': ''}"}
TransportErrors == {"timed out", "Expecting value: line 1 column 1 (char 0)"}

Fresh(p) ==
    /\ parameters = p
    /\ params0 = p
    /\ supported = <<>>
    /\ validated = EmptyDict
    /\ pc = "start"
    /\ error = NoError
    /\ apiKey = ""
    /\ requests = 0
    /\ response = NoResponse
    /\ result = NoResult

\* A call of validate_parameters with any explored parameters dict.
InitValidate ==
    /\ provider \in Providers
    /\ model \in ModelArgs
    /\ \E p \in ParameterDicts(MaxParams) : Fresh(p)

\* A call of call_model.
Init ==
    /\ provider \in Providers
    /\ model \in ModelArgs
    /\ \E p \in CallDicts : Fresh(p)

\* What a finished validate_parameters leaves: the returned dict or the exception,
\* and the caller's dict as the call left it.
Validated(f, sup) ==
    /\ supported' = sup
    /\ parameters' = Caller(f)
    /\ IF Raised(f)
       THEN /\ pc' = "invalid"
            /\ error' = f.err
            /\ UNCHANGED validated
       ELSE /\ pc' = "validated"
            /\ validated' = Out(f)
            /\ UNCHANGED error
    /\ UNCHANGED <<provider, model, params0, apiKey, requests, response, result>>

AliyunValidateParameters ==
    /\ provider = "aliyun"
    /\ pc = "start"
    /\ \E cfg \in Configs :
          Validated(AliyunValidate(model, parameters, AliyunSupportedModels(cfg)),
                    AliyunSupportedModels(cfg))

DeepSeekValidateParameters ==
    /\ provider = "deepseek"
    /\ pc = "start"
    /\ \E cfg \in Configs :
          Validated(DeepSeekValidate(model, parameters, DeepSeekSupportedModels(cfg)),
                    DeepSeekSupportedModels(cfg))

NextValidate == AliyunValidateParameters \/ DeepSeekValidateParameters

SpecValidate == InitValidate /\ [][NextValidate]_vars

Failed(at, e) ==
    /\ pc' = at
    /\ error' = e

\* api_key = settings.ALIYUN_API_KEY; if not api_key: raise
AliyunReadApiKey ==
    /\ provider = "aliyun"
    /\ pc = "validated"
    /\ \E key \in ApiKeys :
          /\ apiKey' = key
          /\ IF key = ""
             THEN Failed("unconfigured", Raise("ValueError", "Aliyun API key not configured"))
             ELSE pc' = "ready" /\ UNCHANGED error
    /\ UNCHANGED <<provider, model, parameters, params0, supported, validated,
                   requests, response, result>>

\* client.post(api_url, json=request_data, headers=headers)
AliyunPost ==
    /\ provider = "aliyun"
    /\ pc = "ready"
    /\ requests' = requests + 1
    /\ pc' = "awaiting"
    /\ UNCHANGED <<provider, model, parameters, params0, supported, validated,
                   error, apiKey, response, result>>

\* response.raise_for_status() raises httpx.HTTPStatusError
AliyunHttpStatusError ==
    /\ provider = "aliyun"
    /\ pc = "awaiting"
    /\ \E detail \in HttpErrors :
          Failed("failed", Raise("ValueError", "Aliyun API HTTP error: " \o detail))
    /\ UNCHANGED <<provider, model, parameters, params0, supported, validated,
                   apiKey, requests, response, result>>

\* any other exception of the request: timeout, connection, a body that is not JSON
AliyunRequestError ==
    /\ provider = "aliyun"
    /\ pc = "awaiting"
    /\ \E text \in TransportErrors :
          Failed("failed", Raise("ValueError", "Aliyun API error: " \o text))
    /\ UNCHANGED <<provider, model, parameters, params0, supported, validated,
                   apiKey, requests, response, result>>

\* result = response.json(); return self._format_response(result, validated_params)
AliyunResponse ==
    /\ provider = "aliyun"
    /\ pc = "awaiting"
    /\ \E resp \in AliyunResponses, uuid \in Uuids, now \in Timestamps :
          /\ response' = resp
          /\ result' = AliyunFormatResponse(resp, validated, uuid, now)
    /\ pc' = "done"
    /\ UNCHANGED <<provider, model, parameters, params0, supported, validated,
                   error, apiKey, requests>>

\* api_key = settings.DEEPSEEK_API_KEY; if not api_key: raise
DeepSeekReadApiKey ==
    /\ provider = "deepseek"
    /\ pc = "validated"
    /\ \E key \in ApiKeys :
          /\ apiKey' = key
          /\ IF key = ""
             THEN Failed("unconfigured", Raise("ValueError", "DeepSeek API key not configured"))
             ELSE pc' = "ready" /\ UNCHANGED error
    /\ UNCHANGED <<provider, model, parameters, params0, supported, validated,
                   requests, response, result>>

\* Keyword arguments chat.completions.create() accepts, among the explored keys.
CreateKeywords == {"model", "messages", "max_tokens", "temperature", "top_p", "stream", "seed"}

\* client.chat.completions.create(**validated_params) with a keyword it does not
\* take: TypeError before anything is sent
DeepSeekCreateRejected ==
    /\ provider = "deepseek"
    /\ pc = "ready"
    /\ \E k \in DOMAIN validated \ CreateKeywords :
          Failed("failed",
                 Raise("ValueError",
                       "DeepSeek API error: AsyncCompletions.create() got an unexpected keyword argument '"
                       \o k \o "'"))
    /\ UNCHANGED <<provider, model, parameters, params0, supported, validated,
                   apiKey, requests, response, result>>

\* AsyncOpenAI(api_key=..., base_url=...) is built without max_retries, so the
\* client keeps its default: a failed attempt is sent again up to twice.
DeepSeekMaxRetries == 2
\* Failures the client retries (timeout, connection, 408/409/429/5xx), as str(e).
DeepSeekRetryableErrors == {"Request timed out.", "Connection error."}
\* Failures the client raises at once (other 4xx), as str(e).
DeepSeekFatalErrors == {"Error code: 401 - Authentication Fails"}

\* client.chat.completions.create(**validated_params) sends the first request
DeepSeekCreate ==
    /\ provider = "deepseek"
    /\ pc = "ready"
    /\ DOMAIN validated \subseteq CreateKeywords
    /\ requests' = requests + 1
    /\ pc' = "awaiting"
    /\ UNCHANGED <<provider, model, parameters, params0, supported, validated,
                   error, apiKey, response, result>>

\* inside the same create(): a retryable failure, and the client sends the request again
DeepSeekRetry ==
    /\ provider = "deepseek"
    /\ pc = "awaiting"
    /\ requests <= DeepSeekMaxRetries
    /\ requests' = requests + 1
    /\ UNCHANGED <<provider, model, parameters, params0, supported, validated, pc,
                   error, apiKey, response, result>>

\* create() raises: a failure that is not retried, or a retryable one with the
\* retries used up
DeepSeekRequestError ==
    /\ provider = "deepseek"
    /\ pc = "awaiting"
    /\ \E text \in DeepSeekFatalErrors \cup DeepSeekRetryableErrors :
          /\ text \in DeepSeekRetryableErrors => requests = 1 + DeepSeekMaxRetries
          /\ Failed("failed", Raise("ValueError", "DeepSeek API error: " \o text))
    /\ UNCHANGED <<provider, model, parameters, params0, supported, validated,
                   apiKey, requests, response, result>>

\* stream=True: create() returns a stream object, and reading response.id raises
DeepSeekStreamOpened ==
    /\ provider = "deepseek"
    /\ pc = "awaiting"
    /\ validated["stream"] = PyBool(TRUE)
    /\ Failed("failed",
              Raise("ValueError",
                    "DeepSeek API error: 'AsyncStream' object has no attribute 'id'"))
    /\ UNCHANGED <<provider, model, parameters, params0, supported, validated,
                   apiKey, requests, response, result>>

\* the chat completion arrives and the result dict is built and returned
DeepSeekResponse ==
    /\ provider = "deepseek"
    /\ pc = "awaiting"
    /\ validated["stream"] = PyBool(FALSE)
    /\ \E resp \in DeepSeekResponses, now \in Timestamps :
          /\ response' = resp
          /\ result' = DeepSeekResult(model, resp, now)
    /\ pc' = "done"
    /\ UNCHANGED <<provider, model, parameters, params0, supported, validated,
                   error, apiKey, requests>>

Next ==
    \/ AliyunValidateParameters
    \/ AliyunReadApiKey
    \/ AliyunPost
    \/ AliyunHttpStatusError
    \/ AliyunRequestError
    \/ AliyunResponse
    \/ DeepSeekValidateParameters
    \/ DeepSeekReadApiKey
    \/ DeepSeekCreateRejected
    \/ DeepSeekCreate
    \/ DeepSeekRetry
    \/ DeepSeekRequestError
    \/ DeepSeekStreamOpened
    \/ DeepSeekResponse

Spec == Init /\ [][Next]_vars

(***************************************************************************)
(* Properties of validate_parameters, checked under SpecValidate.          *)
(***************************************************************************)
Returned == pc = "validated"
Raising == pc = "invalid"
HasInput == "prompt" \in DOMAIN params0 \/ "messages" \in DOMAIN params0
Supports == model \in Range(supported)

\* v is a finite number between lo and hi (both in tenths)
Within(v, lo, hi) ==
    /\ v.kind \in {"int", "float"}
    /\ v.s = ""
    /\ LET t == IF v.kind = "int" THEN v.n * 10 ELSE v.n IN lo <= t /\ t <= hi
AtMost(v, hi) ==
    /\ v.kind \in {"int", "float"}
    /\ v.s = ""
    /\ (IF v.kind = "int" THEN v.n * 10 ELSE v.n) <= hi
FieldWithin(k, lo, hi) == k \in DOMAIN validated => Within(validated[k], lo, hi)

\* C1: whenever validate_parameters returns, every numeric field of the output
\* lies within the provider's bounds (aliyun: max_tokens <= 6000, temperature and
\* top_p in [0, 1], top_k in [1, 100]; deepseek: max_tokens <= 32768, temperature
\* in [0, 2], top_p in [0, 1]), for every supported model.
C1_OutputWithinBounds ==
    Returned =>
        IF provider = "aliyun"
        THEN /\ "max_tokens" \in DOMAIN validated => AtMost(validated["max_tokens"], 60000)
             /\ FieldWithin("temperature", 0, 10)
             /\ FieldWithin("top_p", 0, 10)
             /\ FieldWithin("top_k", 10, 1000)
        ELSE /\ "max_tokens" \in DOMAIN validated => AtMost(validated["max_tokens"], 327680)
             /\ FieldWithin("temperature", 0, 20)
             /\ FieldWithin("top_p", 0, 10)

\* The bounds of C1 hold for every model other than deepseek-reasoner.
C1_BoundsOutsideReasoner ==
    (provider = "deepseek" /\ model = "deepseek-reasoner") \/ C1_OutputWithinBounds

\* C10: for deepseek-reasoner the output of validate_parameters has neither
\* temperature nor top_p; for every other DeepSeek model it has both.
C10_ReasonerHasNoSampling ==
    (provider = "deepseek" /\ Returned) =>
        IF model = "deepseek-reasoner"
        THEN "temperature" \notin DOMAIN validated /\ "top_p" \notin DOMAIN validated
        ELSE "temperature" \in DOMAIN validated /\ "top_p" \in DOMAIN validated

\* The text ", ".join(supported_models) is expected to be, list by list.
Listing ==
    IF supported = AliyunFallbackModels
    THEN "qwen-turbo, qwen-plus, qwen-max, qwen3-235b-a22b, qwen3-30b-a3b, qwen-plus-latest, qwen-turbo-latest, qwen-vl-max, qwen-vl-plus"
    ELSE IF supported = DeepSeekFallbackModels THEN "deepseek-chat, deepseek-reasoner"
    ELSE IF supported = SomeConfig["aliyun"] THEN "qwen-turbo, deepseek-chat"
    ELSE "deepseek-reasoner, qwen-max"
UnsupportedText == "Model '" \o model \o "' not supported. Supported models: " \o Listing
MissingText == "Parameter 'prompt' or 'messages' is required"

FailsUnsupported == Raising /\ error = [type |-> "ValueError", msg |-> UnsupportedText]
FailsMissing == Raising /\ error = [type |-> "ValueError", msg |-> MissingText]
ReturnsModelAndMessages ==
    /\ Returned
    /\ "model" \in DOMAIN validated
    /\ validated["model"] = PyStr(model)
    /\ "messages" \in DOMAIN validated
    /\ validated["messages"].kind = "list"

\* The conversions the provider applies to the caller's values.
IntFields == IF provider = "aliyun" THEN {"max_tokens", "top_k", "seed"} ELSE {"max_tokens"}
FloatFields ==
    IF provider = "deepseek" /\ model = "deepseek-reasoner" THEN {}
    ELSE {"temperature", "top_p"}
ConversionErrors ==
    {ToInt(params0[k]).err : k \in {x \in IntFields \cap DOMAIN params0 : ~ToInt(params0[x]).ok}}
    \cup
    {ToFloat(params0[k]).err :
        k \in {x \in FloatFields \cap DOMAIN params0 : ~ToFloat(params0[x]).ok}}

\* C4 as claimed: a supported model with prompt or messages always returns, with
\* model and messages in the output; an unsupported model always fails with the
\* unsupported-model error naming the model and listing the supported models.
C4_AcceptsSupported ==
    pc # "start" =>
        IF Supports THEN (HasInput => ReturnsModelAndMessages) ELSE FailsUnsupported

\* C4 as amended: with a supported model and prompt or messages, the call returns
\* (model and messages in the output) unless int() or float() of a supplied numeric
\* field raises, and then it fails with that conversion's exception; an unsupported
\* model fails with the unsupported-model error, whatever the parameters.
C4_AcceptsSupportedConvertible ==
    pc # "start" =>
        IF Supports
        THEN HasInput =>
                IF ConversionErrors = {}
                THEN ReturnsModelAndMessages
                ELSE Raising /\ error \in ConversionErrors
        ELSE FailsUnsupported

C4_Witness ==
    /\ Returned
    /\ provider = "deepseek"
    /\ "model" \in DOMAIN params0
    /\ params0["model"] # PyStr(model)
    /\ "max_tokens" \in DOMAIN params0

\* C5 as claimed: without prompt and without messages the call fails with the
\* missing-input error, for every model argument.
C5_MissingInputAlways ==
    (pc # "start" /\ ~HasInput) => FailsMissing

\* C5 as amended: without prompt and without messages the call never returns; it
\* fails with the missing-input error when the model is supported, and with the
\* unsupported-model error when it is not.
C5_MissingInputWhenSupported ==
    (pc # "start" /\ ~HasInput) =>
        IF Supports THEN FailsMissing ELSE FailsUnsupported

C5_Witness ==
    /\ Raising
    /\ ~HasInput
    /\ Supports
    /\ "temperature" \in DOMAIN params0
    /\ error.msg = MissingText

\* C6: the output messages is the caller's messages verbatim when messages is
\* given (with or without prompt), and the single user message wrapping prompt
\* when only prompt is given.
C6_MessagesNormalized ==
    Returned =>
        /\ "messages" \in DOMAIN validated
        /\ "messages" \in DOMAIN params0 => validated["messages"] = params0["messages"]
        /\ ("prompt" \in DOMAIN params0 /\ "messages" \notin DOMAIN params0) =>
              validated["messages"] =
                  PyList(<<[role |-> "user", content |-> params0["prompt"].s]>>)

C6_Witness ==
    /\ Returned
    /\ "prompt" \in DOMAIN params0
    /\ "messages" \in DOMAIN params0
    /\ Len(params0["messages"].l) = 1
    /\ validated["messages"] = params0["messages"]

\* C7: every caller key outside the core set is in the output with the caller's value.
C7_CustomKeysPreserved ==
    Returned =>
        \A k \in DOMAIN params0 \ CoreKeys :
            k \in DOMAIN validated /\ validated[k] = params0[k]

C7_Witness ==
    /\ Returned
    /\ {"user_id", "repetition_penalty"} \subseteq DOMAIN params0
    /\ {"user_id", "repetition_penalty"} \subseteq DOMAIN validated

\* C8: the caller's parameters dict is the same after validate_parameters, whether
\* it returned or raised, as it was before the call.
C8_CallerDictUnchanged ==
    /\ DOMAIN parameters = DOMAIN params0
    /\ \A k \in DOMAIN params0 : parameters[k] = params0[k]

C8_Witness ==
    /\ Returned
    /\ provider = "deepseek"
    /\ "prompt" \in DOMAIN parameters
    /\ "prompt" \notin DOMAIN validated
    /\ "temperature" \in DOMAIN parameters
    /\ validated["temperature"] # parameters["temperature"]
    /\ "max_tokens" \notin DOMAIN parameters

(***************************************************************************)
(* Properties of call_model and _format_response, checked under Spec.      *)
(***************************************************************************)
UsageKeys == {"prompt_tokens", "completion_tokens", "total_tokens"}
UpstreamHasUsage ==
    IF provider = "aliyun"
    THEN "usage" \in DOMAIN response /\ DOMAIN response["usage"] # {}
    ELSE "usage" \in DOMAIN response /\ ~response["usage"].none

\* C2: every returned result has a usage with prompt_tokens, completion_tokens and
\* total_tokens, all 0 when the upstream payload has no usage.
C2_UsageAlwaysPresent ==
    pc = "done" =>
        /\ "usage" \in DOMAIN result
        /\ DOMAIN result["usage"] = UsageKeys
        /\ ~UpstreamHasUsage => \A k \in UsageKeys : result["usage"][k] = 0

\* The usage of a result is complete whenever the upstream payload has a usage.
C2_UsageWhenUpstreamHasIt ==
    (pc = "done" /\ UpstreamHasUsage) =>
        /\ "usage" \in DOMAIN result
        /\ DOMAIN result["usage"] = UsageKeys

ValidationSucceeds == Supports /\ HasInput /\ ConversionErrors = {}
Ended == pc \in {"invalid", "unconfigured", "failed", "done"}

\* C3: a call issues at most one upstream request, and only after validation
\* succeeded and the API key was found; a call whose validation fails or whose key
\* is unset ends in an error with no request issued; a call whose request fails
\* ends in an error with no second request and no result.
C3_SingleRequestAfterChecks ==
    /\ requests \in {0, 1}
    /\ requests = 1 => (ValidationSucceeds /\ apiKey # "" /\ pc \in {"awaiting", "failed", "done"})
    /\ (pc # "start" /\ ~ValidationSucceeds) => (pc = "invalid" /\ requests = 0)
    /\ (pc \notin {"start", "validated", "invalid"} /\ apiKey = "") =>
            (pc = "unconfigured" /\ requests = 0)
    /\ pc \in {"invalid", "unconfigured", "failed"} =>
            (error # NoError /\ DOMAIN result = {})
    /\ Ended => ~ENABLED Next

\* What the code does keep of C3: no request before validation succeeded and the
\* key was found, no result after an error, and a single request on Aliyun; on
\* DeepSeek one call sends up to 1 + DeepSeekMaxRetries requests.
C3_ChecksPrecedeRequests ==
    /\ requests \in 0..(IF provider = "aliyun" THEN 1 ELSE 1 + DeepSeekMaxRetries)
    /\ requests >= 1 => (ValidationSucceeds /\ apiKey # "" /\ pc \in {"awaiting", "failed", "done"})
    /\ (pc # "start" /\ ~ValidationSucceeds) => (pc = "invalid" /\ requests = 0)
    /\ (pc \notin {"start", "validated", "invalid"} /\ apiKey = "") =>
            (pc = "unconfigured" /\ requests = 0)
    /\ pc \in {"invalid", "unconfigured", "failed"} =>
            (error # NoError /\ DOMAIN result = {})
    /\ Ended => ~ENABLED Next

UpstreamOutput == Get(response, "output", EmptyObj)
UpstreamMessage(i) == Get(UpstreamOutput["choices"][i], "message", EmptyObj)

OneChoiceFromText ==
    /\ Len(result.choices) = 1
    /\ result.choices[1].index = 0
    /\ result.choices[1].message.role = "assistant"
    /\ result.choices[1].message.content = UpstreamOutput["text"]
OneChoicePerUpstreamChoice ==
    /\ Len(result.choices) = Len(UpstreamOutput["choices"])
    /\ \A i \in 1..Len(UpstreamOutput["choices"]) :
          /\ i <= Len(result.choices)
          /\ result.choices[i].index = i - 1
          /\ result.choices[i].message.content = Get(UpstreamMessage(i), "content", "")
          /\ "tool_calls" \in DOMAIN result.choices[i].message
                <=> "tool_calls" \in DOMAIN UpstreamMessage(i)
          /\ "tool_calls" \in DOMAIN UpstreamMessage(i) =>
                /\ "tool_calls" \in DOMAIN result.choices[i].message
                /\ result.choices[i].message["tool_calls"] = UpstreamMessage(i)["tool_calls"]

\* C9 as claimed: an output with a text field gives exactly one Choice (index 0,
\* role assistant, the text as content); an output with n choices gives n Choices,
\* the i-th with index i, the upstream content, and tool_calls exactly when the
\* upstream message has them.
C9_ChoicesFollowShape ==
    (pc = "done" /\ provider = "aliyun") =>
        /\ "text" \in DOMAIN UpstreamOutput => OneChoiceFromText
        /\ "choices" \in DOMAIN UpstreamOutput => OneChoicePerUpstreamChoice

\* C9 as amended: the same, with the choices of the output used only when the
\* output has no text field (content is "" when the upstream choice has none).
C9_ChoicesFollowShapeTextFirst ==
    (pc = "done" /\ provider = "aliyun") =>
        /\ "text" \in DOMAIN UpstreamOutput => OneChoiceFromText
        /\ ("choices" \in DOMAIN UpstreamOutput /\ "text" \notin DOMAIN UpstreamOutput)
              => OneChoicePerUpstreamChoice

C9_Witness ==
    /\ pc = "done"
    /\ provider = "aliyun"
    /\ "text" \notin DOMAIN UpstreamOutput
    /\ "choices" \in DOMAIN UpstreamOutput
    /\ Len(UpstreamOutput["choices"]) = 2
    /\ Len(result.choices) = 2
    /\ "tool_calls" \in DOMAIN result.choices[2].message
    /\ "tool_calls" \notin DOMAIN result.choices[1].message

====
